---- MODULE Spec2Model ----
(***************************************************************************)
(* generate_synthetic_cohort.py as a state machine.                        *)
(*                                                                         *)
(* The script is one straight-line pass: every statement is one action,    *)
(* and mem.pc is the source line of the statement that runs next.          *)
(*                                                                         *)
(* Numbers.  A float is held as an integer count of thousandths (4.95 is   *)
(* 4950), so that clipping and rounding are exact integer arithmetic; the  *)
(* integer columns (age, counts, flags, glucose, sodium, bun, platelet)    *)
(* are plain integers.  A float cell that may be NaN is a sequence: <<>>   *)
(* is NaN and <<v>> is the value v.                                        *)
(*                                                                         *)
(* Randomness.  numpy's global generator is a deterministic stream: the    *)
(* k-th call of np.random.* returns the k-th element of the stream the     *)
(* generator was seeded with.  `seeded` is the stream of seed 2025 and     *)
(* `entropy[r]` the stream the generator would give in process run r      *)
(* when it is never seeded (numpy then seeds it from the operating         *)
(* system).  A stream element is the outcome of that call: an array of N   *)
(* draws.  Init picks the streams from bounded families.                   *)
(***************************************************************************)
EXTENDS Integers, Sequences, FiniteSets, TLC

VARIABLES
  N,           \* the cohort size, line 17
  seeded,      \* the stream np.random.seed(2025) starts
  entropy,     \* entropy[r]: the stream of an unseeded generator in process run r
  run,         \* which run of the script this is: 1, or 2 after a re-run
  mem,         \* the interpreter: pc, exit status, generator, stdout, variables
  cohort_csv,  \* the file cohort.csv: its lines, <<>> while it does not exist
  first        \* what the first run left, kept for the re-run: its memory and file

vars == <<N, seeded, entropy, run, mem, cohort_csv, first>>

----------------------------------------------------------------------------
(* Bounds of the model *)

\* cohort sizes 1..MaxN are explored with every value family
MaxN == 2
\* the largest cohort explored with the missingness families
MaxCohort == 16
\* the most rows the MAR draw selects in the overlap family
MaxMarSel == 2

----------------------------------------------------------------------------
(* numpy helpers *)

NaN == <<>>

IsNaN(c) == c = NaN

\* np.clip(x, lo, hi): inclusive bounds
Clip(x, lo, hi) == IF x < lo THEN lo ELSE IF x > hi THEN hi ELSE x

\* n/d rounded to the nearest integer, ties to the even one (np.round / rint)
RoundHalfEven(n, d) ==
  LET q == n \div d
      r == n % d
  IN  IF 2 * r < d THEN q
      ELSE IF 2 * r > d THEN q + 1
      ELSE IF q % 2 = 0 THEN q ELSE q + 1

\* x.round(decimals) of a float in thousandths, decimals in 0..2
Round(x, decimals) ==
  LET unit == IF decimals = 0 THEN 1000 ELSE IF decimals = 1 THEN 100 ELSE 10
  IN  RoundHalfEven(x, unit) * unit

\* x.astype(int) of a float in thousandths: truncation toward zero
astype_int(x) == IF x >= 0 THEN x \div 1000 ELSE -((-x) \div 1000)

\* arr.astype(float) of an integer: the same number in thousandths
astype_float(x) == x * 1000

\* np.arange(start, stop)
arange(start, stop) == [i \in 1..(IF stop > start THEN stop - start ELSE 0) |-> start + i - 1]

RECURSIVE Sum(_)
Sum(s) == IF s = <<>> THEN 0 ELSE Head(s) + Sum(Tail(s))

----------------------------------------------------------------------------
(* The program's statements, by source line, in execution order *)

\* the calls of add_missing without the one on num_medications
MissingCalls_labs ==
  << <<222, "creatinine_m",  "creatinine",      45, FALSE>>,
     <<223, "hemoglobin_m",  "hemoglobin",      72, FALSE>>,
     <<224, "wbc_m",         "wbc",             58, FALSE>>,
     <<225, "glucose_m",     "glucose",        125, TRUE>>,
     <<226, "sodium_m",      "sodium",          40, TRUE>>,
     <<227, "potassium_m",   "potassium",       61, FALSE>>,
     <<228, "bun_m",         "bun",             83, TRUE>>,
     <<229, "platelet_m",    "platelet",        35, TRUE>> >>

\* the calls of add_missing: line, variable bound, argument, pct in tenths of a
\* percent, and whether the call site passes arr.astype(float) of an integer column
MissingCalls ==
  << <<222, "creatinine_m",  "creatinine",      45, FALSE>>,
     <<223, "hemoglobin_m",  "hemoglobin",      72, FALSE>>,
     <<224, "wbc_m",         "wbc",             58, FALSE>>,
     <<225, "glucose_m",     "glucose",        125, TRUE>>,
     <<226, "sodium_m",      "sodium",          40, TRUE>>,
     <<227, "potassium_m",   "potassium",       61, FALSE>>,
     <<228, "bun_m",         "bun",             83, TRUE>>,
     <<229, "platelet_m",    "platelet",        35, TRUE>>,
     <<232, "num_meds_m",    "num_medications", 25, TRUE>> >>

Lines ==
  << 15, 19, 25, 28, 33, 36, 43, 49, 59, 62, 68, 75, 82, 83, 94,
     97, 98, 99, 100, 101, 102, 105, 106, 107, 108,
     116, 117, 118, 121, 124, 125, 128, 131, 132, 133, 136, 139, 142, 145,
     152, 155, 156, 157, 160, 169, 175, 200, 201, 203, 211 >>
  \o [c \in 1..Len(MissingCalls) |-> MissingCalls[c][1]]
  \o << 235, 236, 237, 243, 284, 285 >>

\* the line that runs after line l
Succ(l) == Lines[(CHOOSE k \in 1..(Len(Lines) - 1) : Lines[k] = l) + 1]

\* the program's variables before any statement has run
Unset == <<>>

Fields ==
  { "subject_id", "age_at_admit", "gender", "race", "insurance", "marital_status",
    "los_days", "admission_type", "hadm_id", "prior_admits_12m", "had_icu_stay",
    "icu_los_days", "num_diagnoses", "dx_cerebral_infarction", "dx_ich",
    "dx_epilepsy", "dx_parkinson", "dx_alzheimer", "dx_ms", "dx_diabetes",
    "dx_chf", "dx_copd", "dx_ckd", "creatinine_base", "creatinine", "hgb_base",
    "hemoglobin", "wbc", "glucose_base", "glucose", "sodium", "potassium", "bun",
    "platelet", "num_medications", "on_anticoagulant", "on_statin", "on_insulin",
    "on_antiepileptic", "logit", "prob_readmit", "readmit_30d",
    "creatinine_m", "hemoglobin_m", "wbc_m", "glucose_m", "sodium_m",
    "potassium_m", "bun_m", "platelet_m", "num_meds_m", "mar_mask", "df" }

\* a fresh interpreter: no variable bound, the generator unseeded, nothing printed
Start ==
  [ pc |-> Lines[1],
    exit |-> "",
    rng |-> [seeded |-> FALSE, pos |-> 0],
    stdout |-> <<>>,
    v |-> [f \in Fields |-> Unset] ]

\* the stream the generator of memory m reads
Stream(m) == IF m.rng.seeded THEN seeded ELSE entropy[run]

\* the outcome of the k-th np.random call made by the statement at hand
Rand(m, k) == Stream(m)[m.rng.pos + k]

\* memory m after its statement bound the variables in `binds` (a record),
\* consumed `draws` calls of the generator and printed `prints`
Step(m, binds, draws, prints) ==
  [ m EXCEPT !.pc = Succ(m.pc),
             !.rng.pos = @ + draws,
             !.stdout = @ \o prints,
             !.v = [f \in Fields |-> IF f \in DOMAIN binds THEN binds[f] ELSE @[f]] ]

Running(l) == mem.exit = "" /\ mem.pc = l

Frame == UNCHANGED <<N, seeded, entropy, run, cohort_csv, first>>

Rows == 1..N

----------------------------------------------------------------------------
(* 0. seed *)

\* the seed statement missing: the generator stays as numpy seeded it from the
\* operating system
seed_skipped(m) == [m EXCEPT !.pc = Succ(m.pc)]

\* np.random.seed(2025)
seed(m) == [m EXCEPT !.pc = Succ(m.pc), !.rng = [seeded |-> TRUE, pos |-> 0]]

L15_seed == Running(15) /\ mem' = seed(mem) /\ Frame

L19_print ==
  /\ Running(19)
  /\ mem' = Step(mem, <<>>, 0, << <<"Generating", N>> >>)
  /\ Frame

----------------------------------------------------------------------------
(* 1. demographics, 2. admission characteristics *)

subject_id == arange(100001, 100001 + N)

L25_subject_id ==
  /\ Running(25)
  /\ mem' = Step(mem, [subject_id |-> subject_id], 0, <<>>)
  /\ Frame

\* np.clip(np.random.normal(67, 15, N).astype(int), 18, 99)
age_at_admit(normal) == [i \in Rows |-> Clip(astype_int(normal[i]), 18, 99)]

L28_age_at_admit ==
  /\ Running(28)
  /\ mem' = Step(mem, [age_at_admit |-> age_at_admit(Rand(mem, 1))], 1, <<>>)
  /\ Frame

\* los_days with the clip forgotten
los_days_unclipped(lognormal) == [i \in Rows |-> Round(lognormal[i], 1)]

\* np.clip(np.random.lognormal(1.6, 0.7, N), 1.0, 60.0).round(1)
los_days(lognormal) == [i \in Rows |-> Round(Clip(lognormal[i], 1000, 60000), 1)]

L59_los_days ==
  /\ Running(59)
  /\ mem' = Step(mem, [los_days |-> los_days(Rand(mem, 1))], 1, <<>>)
  /\ Frame

hadm_id == arange(200001, 200001 + N)

L68_hadm_id ==
  /\ Running(68)
  /\ mem' = Step(mem, [hadm_id |-> hadm_id], 0, <<>>)
  /\ Frame

\* the statements that bind a column to one draw as it comes: the categorical
\* choices and the Bernoulli flags (np.random.binomial(1, p, N))
PlainDraws ==
  << <<33, "gender">>, <<36, "race">>, <<43, "insurance">>, <<49, "marital_status">>,
     <<62, "admission_type">>, <<82, "had_icu_stay">>,
     <<97, "dx_cerebral_infarction">>, <<98, "dx_ich">>, <<99, "dx_epilepsy">>,
     <<100, "dx_parkinson">>, <<101, "dx_alzheimer">>, <<102, "dx_ms">>,
     <<105, "dx_diabetes">>, <<106, "dx_chf">>, <<107, "dx_copd">>, <<108, "dx_ckd">>,
     <<155, "on_anticoagulant">>, <<156, "on_statin">> >>

PlainDraw ==
  \E k \in 1..Len(PlainDraws) :
    /\ Running(PlainDraws[k][1])
    /\ mem' = Step(mem, [f \in {PlainDraws[k][2]} |-> Rand(mem, 1)], 1, <<>>)
    /\ Frame

----------------------------------------------------------------------------
(* 3. utilization *)

\* np.where(np.random.random(N) < 0.45, 0, np.clip(np.random.poisson(1.8, N), 1, 8))
prior_admits_12m(random, poisson) ==
  [i \in Rows |-> IF random[i] < 450 THEN 0 ELSE Clip(poisson[i], 1, 8)]

L75_prior_admits_12m ==
  /\ Running(75)
  /\ mem' = Step(mem, [prior_admits_12m |->
                         prior_admits_12m(Rand(mem, 1), Rand(mem, 2))], 2, <<>>)
  /\ Frame

\* icu_los_days with the np.where on the flag forgotten
icu_los_days_unflagged(had_icu_stay, lognormal) ==
  [i \in Rows |-> Round(Clip(lognormal[i], 500, 30000), 1)]

\* np.where(had_icu_stay == 1,
\*          np.clip(np.random.lognormal(0.8, 0.6, N), 0.5, 30.0).round(1), 0.0)
icu_los_days(had_icu_stay, lognormal) ==
  [i \in Rows |-> IF had_icu_stay[i] = 1
                  THEN Round(Clip(lognormal[i], 500, 30000), 1)
                  ELSE 0]

L83_icu_los_days ==
  /\ Running(83)
  /\ mem' = Step(mem, [icu_los_days |->
                         icu_los_days(mem.v.had_icu_stay, Rand(mem, 1))], 1, <<>>)
  /\ Frame

----------------------------------------------------------------------------
(* 4. diagnoses *)

\* np.clip(np.random.poisson(5.5, N), 1, 20)
num_diagnoses(poisson) == [i \in Rows |-> Clip(poisson[i], 1, 20)]

L94_num_diagnoses ==
  /\ Running(94)
  /\ mem' = Step(mem, [num_diagnoses |-> num_diagnoses(Rand(mem, 1))], 1, <<>>)
  /\ Frame

----------------------------------------------------------------------------
(* 5. laboratory values *)

L116_creatinine_base ==
  /\ Running(116)
  /\ mem' = Step(mem, [creatinine_base |-> Rand(mem, 1)], 1, <<>>)
  /\ Frame

\* np.where(dx_ckd == 1, creatinine_base * 1.8, creatinine_base), held in
\* ten-thousandths so that the product by 1.8 is exact
creatinine_where(dx_ckd, creatinine_base) ==
  [i \in Rows |-> IF dx_ckd[i] = 1 THEN creatinine_base[i] * 18
                                   ELSE creatinine_base[i] * 10]

L117_creatinine ==
  /\ Running(117)
  /\ mem' = Step(mem, [creatinine |->
                         creatinine_where(mem.v.dx_ckd, mem.v.creatinine_base)], 0, <<>>)
  /\ Frame

\* np.clip(creatinine, 0.3, 8.0).round(2): from ten-thousandths to thousandths
creatinine_clip(creatinine) ==
  [i \in Rows |-> RoundHalfEven(Clip(creatinine[i], 3000, 80000), 100) * 10]

L118_creatinine ==
  /\ Running(118)
  /\ mem' = Step(mem, [creatinine |-> creatinine_clip(mem.v.creatinine)], 0, <<>>)
  /\ Frame

\* np.where(gender == "F", np.random.normal(12.2, 1.8, N), np.random.normal(13.8, 2.0, N))
hgb_base(gender, normalF, normalM) ==
  [i \in Rows |-> IF gender[i] = "F" THEN normalF[i] ELSE normalM[i]]

L121_hgb_base ==
  /\ Running(121)
  /\ mem' = Step(mem, [hgb_base |->
                         hgb_base(mem.v.gender, Rand(mem, 1), Rand(mem, 2))], 2, <<>>)
  /\ Frame

\* the shift with its sign slipped
hemoglobin_where_plus(dx_ckd, base) ==
  [i \in Rows |-> IF dx_ckd[i] = 1 THEN base[i] + 1500 ELSE base[i]]

\* np.where(dx_ckd == 1, hgb_base - 1.5, hgb_base)
hemoglobin_where(dx_ckd, base) ==
  [i \in Rows |-> IF dx_ckd[i] = 1 THEN base[i] - 1500 ELSE base[i]]

L124_hemoglobin ==
  /\ Running(124)
  /\ mem' = Step(mem, [hemoglobin |->
                         hemoglobin_where(mem.v.dx_ckd, mem.v.hgb_base)], 0, <<>>)
  /\ Frame

\* np.clip(hemoglobin, 5.0, 19.0).round(1)
hemoglobin_clip(hemoglobin) ==
  [i \in Rows |-> Round(Clip(hemoglobin[i], 5000, 19000), 1)]

L125_hemoglobin ==
  /\ Running(125)
  /\ mem' = Step(mem, [hemoglobin |-> hemoglobin_clip(mem.v.hemoglobin)], 0, <<>>)
  /\ Frame

\* np.clip(np.random.lognormal(2.1, 0.35, N), 1.5, 35.0).round(1)
wbc(lognormal) == [i \in Rows |-> Round(Clip(lognormal[i], 1500, 35000), 1)]

L128_wbc ==
  /\ Running(128)
  /\ mem' = Step(mem, [wbc |-> wbc(Rand(mem, 1))], 1, <<>>)
  /\ Frame

L131_glucose_base ==
  /\ Running(131)
  /\ mem' = Step(mem, [glucose_base |-> Rand(mem, 1)], 1, <<>>)
  /\ Frame

\* np.where(dx_diabetes == 1, glucose_base * 1.3, glucose_base), held in
\* ten-thousandths so that the product by 1.3 is exact
glucose_where(dx_diabetes, glucose_base) ==
  [i \in Rows |-> IF dx_diabetes[i] = 1 THEN glucose_base[i] * 13
                                        ELSE glucose_base[i] * 10]

L132_glucose ==
  /\ Running(132)
  /\ mem' = Step(mem, [glucose |->
                         glucose_where(mem.v.dx_diabetes, mem.v.glucose_base)], 0, <<>>)
  /\ Frame

\* np.clip(glucose, 50, 500).round(0).astype(int): from ten-thousandths to an integer
glucose_clip(glucose) ==
  [i \in Rows |-> RoundHalfEven(Clip(glucose[i], 500000, 5000000), 10000)]

L133_glucose ==
  /\ Running(133)
  /\ mem' = Step(mem, [glucose |-> glucose_clip(mem.v.glucose)], 0, <<>>)
  /\ Frame

\* np.clip(np.random.normal(139, 3.5, N), 118, 158).round(0).astype(int)
sodium(normal) ==
  [i \in Rows |-> astype_int(Round(Clip(normal[i], 118000, 158000), 0))]

L136_sodium ==
  /\ Running(136)
  /\ mem' = Step(mem, [sodium |-> sodium(Rand(mem, 1))], 1, <<>>)
  /\ Frame

\* np.clip(np.random.normal(4.1, 0.5, N), 2.5, 6.5).round(1)
potassium(normal) == [i \in Rows |-> Round(Clip(normal[i], 2500, 6500), 1)]

L139_potassium ==
  /\ Running(139)
  /\ mem' = Step(mem, [potassium |-> potassium(Rand(mem, 1))], 1, <<>>)
  /\ Frame

\* np.clip(creatinine * np.random.normal(12, 3, N) + 5, 5, 80).round(0).astype(int):
\* the product of two counts of thousandths is a count of millionths
bun(creatinine, normal) ==
  [i \in Rows |->
     RoundHalfEven(Clip(creatinine[i] * normal[i] + 5000000, 5000000, 80000000),
                   1000000)]

L142_bun ==
  /\ Running(142)
  /\ mem' = Step(mem, [bun |-> bun(mem.v.creatinine, Rand(mem, 1))], 1, <<>>)
  /\ Frame

\* np.clip(np.random.normal(220, 75, N), 30, 600).round(0).astype(int)
platelet(normal) ==
  [i \in Rows |-> astype_int(Round(Clip(normal[i], 30000, 600000), 0))]

L145_platelet ==
  /\ Running(145)
  /\ mem' = Step(mem, [platelet |-> platelet(Rand(mem, 1))], 1, <<>>)
  /\ Frame

----------------------------------------------------------------------------
(* 6. medications *)

\* np.clip(np.random.poisson(8, N), 1, 25)
num_medications(poisson) == [i \in Rows |-> Clip(poisson[i], 1, 25)]

L152_num_medications ==
  /\ Running(152)
  /\ mem' = Step(mem, [num_medications |-> num_medications(Rand(mem, 1))], 1, <<>>)
  /\ Frame

\* np.where(flag == 1, np.random.binomial(1, p1, N), np.random.binomial(1, p0, N))
where_flag(flag, binomial1, binomial0) ==
  [i \in Rows |-> IF flag[i] = 1 THEN binomial1[i] ELSE binomial0[i]]

L157_on_insulin ==
  /\ Running(157)
  /\ mem' = Step(mem, [on_insulin |->
                         where_flag(mem.v.dx_diabetes, Rand(mem, 1), Rand(mem, 2))],
                 2, <<>>)
  /\ Frame

L160_on_antiepileptic ==
  /\ Running(160)
  /\ mem' = Step(mem, [on_antiepileptic |->
                         where_flag(mem.v.dx_epilepsy, Rand(mem, 1), Rand(mem, 2))],
                 2, <<>>)
  /\ Frame

----------------------------------------------------------------------------
(* 7. readmission outcome *)

L169_print ==
  /\ Running(169)
  /\ mem' = Step(mem, <<>>, 0, << <<"Generating readmission outcome", N>> >>)
  /\ Frame

\* a finite real whose value the model does not track
Real == <<0>>

\* len(x) * (x - np.mean(x)): the numerator of z, scaled to stay an integer
Dev(x) == [i \in 1..Len(x) |-> Len(x) * x[i] - Sum(x)]

\* def z(x): return (x - np.mean(x)) / np.std(x)
\* np.std(x) is 0 exactly when every deviation is 0, and then each cell is 0/0 = NaN
\* (numpy warns and carries on).  Otherwise the cell holds the deviation: dividing it
\* by the positive np.std(x) keeps it finite and keeps its sign.
z(x) ==
  IF \A i \in 1..Len(x) : Dev(x)[i] = 0
  THEN [i \in 1..Len(x) |-> NaN]
  ELSE [i \in 1..Len(x) |-> <<Dev(x)[i]>>]

\* the columns that enter logit through z, lines 177-196
Standardized ==
  << "age_at_admit", "prior_admits_12m", "los_days", "creatinine", "hemoglobin",
     "wbc", "glucose", "sodium", "num_diagnoses", "num_medications" >>

\* logit = -1.10 + 0.15 * z(age_at_admit) + ... + np.random.normal(0, 0.3, N):
\* a sum of finite weights times z cells, flags and noise is NaN exactly when one of
\* its z cells is
logit(v, noise) ==
  [i \in Rows |->
     IF \E k \in 1..Len(Standardized) : IsNaN(z(v[Standardized[k]])[i])
     THEN NaN ELSE Real]

L175_logit ==
  /\ Running(175)
  /\ mem' = Step(mem, [logit |-> logit(mem.v, Rand(mem, 1))], 1, <<>>)
  /\ Frame

\* 1 / (1 + np.exp(-logit)): NaN for NaN, a real of [0, 1] otherwise
prob_readmit(lg) == [i \in Rows |-> IF IsNaN(lg[i]) THEN NaN ELSE Real]

L200_prob_readmit ==
  /\ Running(200)
  /\ mem' = Step(mem, [prob_readmit |-> prob_readmit(mem.v.logit)], 0, <<>>)
  /\ Frame

\* np.random.binomial(1, prob_readmit, N) raises ValueError when p contains NaN
binomial_raises(p) == \E i \in 1..Len(p) : IsNaN(p[i])

L201_readmit_30d ==
  /\ Running(201)
  /\ mem' = IF binomial_raises(mem.v.prob_readmit)
            THEN [mem EXCEPT !.exit = "ValueError"]
            ELSE Step(mem, [readmit_30d |-> Rand(mem, 1)], 1, <<>>)
  /\ Frame

L203_readmit_rate ==
  /\ Running(203)
  /\ mem' = Step(mem, <<>>, 0, << <<"Readmission rate", Sum(mem.v.readmit_30d)>> >>)
  /\ Frame

----------------------------------------------------------------------------
(* 8. missing data *)

L211_print ==
  /\ Running(211)
  /\ mem' = Step(mem, <<>>, 0, << <<"Introducing missing data patterns", N>> >>)
  /\ Frame

\* int(len(arr) * pct / 100), pct in tenths of a percent (4.5 is 45)
n_miss(len, pct) == (len * pct) \div 1000

RECURSIVE Without(_, _, _)
\* np.random.choice(a, size, replace=False): the k-th pick is drawn among the
\* indices not picked yet, u[k] saying which
Without(rest, size, u) ==
  IF size = 0 THEN <<>>
  ELSE LET j == (Head(u) % Len(rest)) + 1
       IN  <<rest[j]>> \o
           Without(SubSeq(rest, 1, j - 1) \o SubSeq(rest, j + 1, Len(rest)),
                   size - 1, Tail(u))

\* np.random.choice(a, size, replace): indices of range(a); u is the generator's
\* raw integers for this call
choice(a, size, replace, u) ==
  IF replace THEN [k \in 1..size |-> u[k] % a]
  ELSE Without([i \in 1..a |-> i - 1], size, u)

\* def add_missing(arr, pct, name): the returned array; arr is float already
add_missing_replace(arr, pct, u) ==
  LET idx == choice(Len(arr), n_miss(Len(arr), pct), TRUE, u)
  IN  [i \in 1..Len(arr) |->
         IF \E k \in 1..Len(idx) : idx[k] = i - 1 THEN NaN ELSE <<arr[i]>>]

add_missing(arr, pct, u) ==
  LET idx == choice(Len(arr), n_miss(Len(arr), pct), FALSE, u)
      result == [i \in 1..Len(arr) |-> <<arr[i]>>]
  IN  [i \in 1..Len(arr) |->
         IF \E k \in 1..Len(idx) : idx[k] = i - 1 THEN NaN ELSE result[i]]

\* the array a call site passes
Argument(v, c) ==
  IF c[5] THEN [i \in 1..Len(v[c[3]]) |-> astype_float(v[c[3]][i])] ELSE v[c[3]]

L222_add_missing ==
  \E k \in 1..Len(MissingCalls) :
    LET c == MissingCalls[k]
        arr == Argument(mem.v, c)
    IN  /\ Running(c[1])
        /\ mem' = Step(mem, [f \in {c[2]} |-> add_missing(arr, c[4], Rand(mem, 1))],
                       1, << <<c[3], n_miss(Len(arr), c[4])>> >>)
        /\ Frame

\* the mask with the restriction to non-diabetic rows forgotten
mar_mask_all(dx_diabetes, random) == [i \in Rows |-> random[i] < 50]

\* (dx_diabetes == 0) & (np.random.random(N) < 0.05)
mar_mask(dx_diabetes, random) ==
  [i \in Rows |-> dx_diabetes[i] = 0 /\ random[i] < 50]

L235_mar_mask ==
  /\ Running(235)
  /\ mem' = Step(mem, [mar_mask |-> mar_mask(mem.v.dx_diabetes, Rand(mem, 1))], 1, <<>>)
  /\ Frame

\* glucose_m[mar_mask] = np.nan
mask_assign(arr, mask) == [i \in 1..Len(arr) |-> IF mask[i] THEN NaN ELSE arr[i]]

L236_glucose_m ==
  /\ Running(236)
  /\ mem' = Step(mem, [glucose_m |-> mask_assign(mem.v.glucose_m, mem.v.mar_mask)],
                 0, <<>>)
  /\ Frame

\* mar_mask.sum()
mask_sum(mask) == Cardinality({i \in 1..Len(mask) : mask[i]})

L237_print ==
  /\ Running(237)
  /\ mem' = Step(mem, <<>>, 0,
                 << <<"glucose (additional MAR)", mask_sum(mem.v.mar_mask)>> >>)
  /\ Frame

----------------------------------------------------------------------------
(* 9. assemble and export *)

\* the dict given to pd.DataFrame, in its order: column, variable, and how the
\* column's cells are held ("int", "str", "float" in thousandths, "nanfloat")
Columns ==
  << <<"subject_id",             "subject_id",             "int">>,
     <<"hadm_id",                "hadm_id",                "int">>,
     <<"readmit_30d",            "readmit_30d",            "int">>,
     <<"age_at_admit",           "age_at_admit",           "int">>,
     <<"gender",                 "gender",                 "str">>,
     <<"race",                   "race",                   "str">>,
     <<"insurance",              "insurance",              "str">>,
     <<"marital_status",         "marital_status",         "str">>,
     <<"los_days",               "los_days",               "float">>,
     <<"admission_type",         "admission_type",         "str">>,
     <<"prior_admits_12m",       "prior_admits_12m",       "int">>,
     <<"had_icu_stay",           "had_icu_stay",           "int">>,
     <<"icu_los_days",           "icu_los_days",           "float">>,
     <<"num_diagnoses",          "num_diagnoses",          "int">>,
     <<"dx_cerebral_infarction", "dx_cerebral_infarction", "int">>,
     <<"dx_ich",                 "dx_ich",                 "int">>,
     <<"dx_epilepsy",            "dx_epilepsy",            "int">>,
     <<"dx_parkinson",           "dx_parkinson",           "int">>,
     <<"dx_alzheimer",           "dx_alzheimer",           "int">>,
     <<"dx_ms",                  "dx_ms",                  "int">>,
     <<"dx_diabetes",            "dx_diabetes",            "int">>,
     <<"dx_chf",                 "dx_chf",                 "int">>,
     <<"dx_copd",                "dx_copd",                "int">>,
     <<"dx_ckd",                 "dx_ckd",                 "int">>,
     <<"creatinine",             "creatinine_m",           "nanfloat">>,
     <<"hemoglobin",             "hemoglobin_m",           "nanfloat">>,
     <<"wbc",                    "wbc_m",                  "nanfloat">>,
     <<"glucose",                "glucose_m",              "nanfloat">>,
     <<"sodium",                 "sodium_m",               "nanfloat">>,
     <<"potassium",              "potassium_m",            "nanfloat">>,
     <<"bun",                    "bun_m",                  "nanfloat">>,
     <<"platelet",               "platelet_m",             "nanfloat">>,
     <<"num_medications",        "num_meds_m",             "nanfloat">>,
     <<"on_anticoagulant",       "on_anticoagulant",       "int">>,
     <<"on_statin",              "on_statin",              "int">>,
     <<"on_insulin",             "on_insulin",             "int">>,
     <<"on_antiepileptic",       "on_antiepileptic",       "int">> >>

\* pd.DataFrame(dict): the columns in the dict's order; every array must have
\* the same length
DataFrame(cols, v) ==
  [ columns |-> [k \in 1..Len(cols) |-> cols[k][1]],
    dtype   |-> [k \in 1..Len(cols) |-> cols[k][3]],
    data    |-> [k \in 1..Len(cols) |-> v[cols[k][2]]],
    rows    |-> Len(v[cols[1][2]]) ]

DataFrame_raises(cols, v) ==
  \E k \in 1..Len(cols) : Len(v[cols[k][2]]) # Len(v[cols[1][2]])

L243_df ==
  /\ Running(243)
  /\ mem' = IF DataFrame_raises(Columns, mem.v)
            THEN [mem EXCEPT !.exit = "ValueError"]
            ELSE Step(mem, [df |-> DataFrame(Columns, mem.v)], 0, <<>>)
  /\ Frame

\* one cell as to_csv writes it: NaN is the empty field, a string is itself, a
\* number is its digits (a float's are those of its count of thousandths)
csv_cell(dtype, c) ==
  IF dtype = "str" THEN c
  ELSE IF dtype = "nanfloat" THEN (IF IsNaN(c) THEN "" ELSE ToString(c[1]))
  ELSE ToString(c)

\* df.to_csv(path) with the default index=True: a leading index column
to_csv_index(df) ==
  <<(<<"">> \o df.columns)>> \o
  [i \in 1..df.rows |->
     <<ToString(i - 1)>> \o
     [k \in 1..Len(df.columns) |-> csv_cell(df.dtype[k], df.data[k][i])]]

\* df.to_csv("cohort.csv", index=False): the header, then one line per row
to_csv(df) ==
  <<df.columns>> \o
  [i \in 1..df.rows |->
     [k \in 1..Len(df.columns) |-> csv_cell(df.dtype[k], df.data[k][i])]]

L284_to_csv ==
  /\ Running(284)
  /\ cohort_csv' = to_csv(mem.v.df)
  /\ mem' = Step(mem, <<>>, 0, <<>>)
  /\ UNCHANGED <<N, seeded, entropy, run, first>>

\* df.isnull().sum() of column k
isnull_sum(df, k) ==
  IF df.dtype[k] = "nanfloat"
  THEN Cardinality({i \in 1..df.rows : IsNaN(df.data[k][i])})
  ELSE 0

\* lines 295-298: one line for each column that has a missing cell
missing_summary(df) ==
  LET ks == SelectSeq([k \in 1..Len(df.columns) |-> k], LAMBDA k : isnull_sum(df, k) > 0)
  IN  [j \in 1..Len(ks) |-> <<df.columns[ks[j]], isnull_sum(df, ks[j])>>]

\* lines 285-303: the summary, of which stdout keeps the lines that carry a count
\* (the shape and the missing data summary); the script then ends
L285_summary ==
  /\ Running(285)
  /\ mem' = [mem EXCEPT
               !.exit = "ok",
               !.stdout = @ \o << <<"Shape rows", mem.v.df.rows>>,
                                  <<"Shape columns", Len(mem.v.df.columns)>> >>
                            \o missing_summary(mem.v.df)]
  /\ Frame

----------------------------------------------------------------------------
(* The random streams explored *)

\* the np.random calls in execution order: the line of each, and its place in the
\* statement when the statement makes two calls
Calls ==
  << 28, 33, 36, 43, 49, 59, 62, 75, 75, 82, 83, 94, 97, 98, 99, 100, 101, 102,
     105, 106, 107, 108, 116, 121, 121, 128, 131, 136, 139, 142, 145, 152, 155, 156,
     157, 157, 160, 160, 175, 201, 222, 223, 224, 225, 226, 227, 228, 229, 232, 235 >>

\* the calls of np.random.choice inside add_missing
ChoiceCalls == {k \in 1..Len(Calls) : \E c \in 1..Len(MissingCalls) : MissingCalls[c][1] = Calls[k]}

\* typical outcomes of each call, for the odd and for the even rows: in range, and
\* different in every standardized column
TypicalOdd ==
  << 67900, "M", "WHITE", "Medicare", "MARRIED", 4930, "EMERGENCY", 200, 1, 0, 2230, 5,
     0, 0, 0, 0, 0, 0, 0, 0, 0, 0, 1100, 12200, 13800, 8130, 121000, 139200, 4120,
     12000, 220300, 8, 0, 0, 0, 0, 0, 0, 0, 0, 0, 0, 0, 0, 0, 0, 0, 0, 0, 500 >>

TypicalEven ==
  << 54200, "F", "ASIAN", "Other", "SINGLE", 7210, "URGENT", 700, 2, 1, 3110, 7,
     1, 1, 1, 1, 1, 1, 1, 1, 1, 1, 1300, 11800, 14100, 9340, 140000, 141300, 4410,
     11000, 250400, 9, 1, 1, 1, 1, 1, 1, 100, 1, 0, 0, 0, 0, 0, 0, 0, 0, 0, 500 >>

\* the outcomes explored for one cell of each call: below, at, inside and above the
\* clip range, and on rounding ties
Outcomes ==
  << {-500, 17999, 18000, 67900, 99999, 104200},
     {"M", "F"},
     {"WHITE", "BLACK/AFRICAN AMERICAN", "HISPANIC/LATINO", "ASIAN", "OTHER", "UNKNOWN"},
     {"Medicare", "Medicaid", "Other"},
     {"MARRIED", "SINGLE", "DIVORCED", "WIDOWED", "UNKNOWN"},
     {400, 1040, 4850, 4950, 60040, 75000},
     {"URGENT", "EMERGENCY", "OBSERVATION"},
     {200, 450, 700},
     {0, 1, 3, 8, 11},
     {0, 1},
     {100, 449, 2250, 2350, 30040, 45000},
     {0, 5, 20, 23},
     {0, 1}, {0, 1}, {0, 1}, {0, 1}, {0, 1}, {0, 1}, {0, 1}, {0, 1}, {0, 1}, {0, 1},
     {100, 295, 1105, 1300, 4500, 9000},
     {3000, 5700, 12250, 12300, 19040, 21000},
     {3000, 6400, 12250, 13800, 19060, 20600},
     {1000, 1449, 8150, 35040, 40000},
     {40000, 121500, 140000, 390000, 600000},
     {110000, 117600, 138500, 139500, 158400, 170000},
     {2000, 2450, 4150, 6540, 7000},
     {-2000, 12000, 12500, 40000},
     {-10000, 29600, 220500, 600400, 700000},
     {0, 8, 25, 30},
     {0, 1}, {0, 1}, {0, 1}, {0, 1}, {0, 1}, {0, 1},
     {-300, 0, 300},
     {0, 1},
     {}, {}, {}, {}, {}, {}, {}, {}, {},
     {10, 50, 500} >>

\* the stream whose every call has its typical outcome; a choice call picks the
\* lowest index left each time
Typical(n) ==
  [k \in 1..Len(Calls) |->
     IF k \in ChoiceCalls THEN [i \in 1..n |-> 0]
     ELSE [i \in 1..n |-> IF i % 2 = 1 THEN TypicalOdd[k] ELSE TypicalEven[k]]]

\* the calls whose outcomes meet in one cell of the table or in one branch: each
\* group is explored over the full product of its calls' outcomes
Groups ==
  { <<1>>, <<3>>, <<4>>, <<5>>, <<6>>, <<7>>, <<12>>, <<13>>, <<14>>, <<16>>, <<17>>,
    <<18>>, <<20>>, <<21>>, <<26>>, <<28>>, <<29>>, <<31>>, <<32>>, <<33>>, <<34>>,
    <<39>>, <<40>>,
    <<8, 9>>, <<10, 11>>, <<19, 27>>, <<19, 50>>,
    <<22, 23, 30>>, <<19, 35, 36>>, <<15, 37, 38>>,
    <<2, 22, 24, 25>> }

\* the streams that differ from st in row i of the calls of group g
Vary(st, i, g) ==
  IF Len(g) = 1 THEN
    {[st EXCEPT ![g[1]][i] = a] : a \in Outcomes[g[1]]}
  ELSE IF Len(g) = 2 THEN
    {[st EXCEPT ![g[1]][i] = a, ![g[2]][i] = b] :
       a \in Outcomes[g[1]], b \in Outcomes[g[2]]}
  ELSE IF Len(g) = 3 THEN
    {[st EXCEPT ![g[1]][i] = a, ![g[2]][i] = b, ![g[3]][i] = c] :
       a \in Outcomes[g[1]], b \in Outcomes[g[2]], c \in Outcomes[g[3]]}
  ELSE
    {[st EXCEPT ![g[1]][i] = a, ![g[2]][i] = b, ![g[3]][i] = c, ![g[4]][i] = d] :
       a \in Outcomes[g[1]], b \in Outcomes[g[2]], c \in Outcomes[g[3]],
       d \in Outcomes[g[4]]}

\* the value streams of a cohort of n rows: one group varies in one row
ValueStreams(n) == UNION {Vary(Typical(n), i, g) : i \in 1..n, g \in Groups}

RECURSIVE Picks(_, _)
\* the raw integers of `size` picks without replacement among n indices
Picks(n, size) ==
  IF size = 0 THEN {<<>>}
  ELSE {Append(p, j) : p \in Picks(n, size - 1), j \in 0..(n - size)}

\* the place in the stream of the np.random.choice of the c-th add_missing call
ChoiceCall(c) == CHOOSE k \in 1..Len(Calls) : Calls[k] = MissingCalls[c][1]

\* the raw integers p of the picks, as the n raw integers of one choice call
Raw(n, p) == [i \in 1..n |-> IF i <= Len(p) THEN p[i] ELSE 0]

\* the streams of a cohort of n rows in which one call of add_missing picks any
\* rows
PickStreams(n) ==
  UNION {{[Typical(n) EXCEPT ![ChoiceCall(c)] = Raw(n, p)] :
            p \in Picks(n, n_miss(n, MissingCalls[c][4]))} :
         c \in 1..Len(MissingCalls)}

GlucoseCall == CHOOSE c \in 1..Len(MissingCalls) : MissingCalls[c][2] = "glucose_m"

\* the streams of a cohort of n rows in which glucose's add_missing picks any rows
\* and the MAR draw falls below 0.05 in any set of at most MaxMarSel rows
OverlapStreams(n) ==
  {[Typical(n) EXCEPT ![ChoiceCall(GlucoseCall)] = Raw(n, p),
                      ![Len(Calls)] = [i \in 1..n |-> IF i \in S THEN 10 ELSE 500]] :
     p \in Picks(n, n_miss(n, MissingCalls[GlucoseCall][4])),
     S \in {S \in SUBSET (1..n) : Cardinality(S) <= MaxMarSel}}

\* the cohorts large enough for add_missing to pick a row: the smallest one, and
\* the largest one explored
SmallestMissing == CHOOSE n \in 1..MaxCohort :
                     /\ \E c \in 1..Len(MissingCalls) : n_miss(n, MissingCalls[c][4]) > 0
                     /\ \A m \in 1..(n - 1) :
                          \A c \in 1..Len(MissingCalls) : n_miss(m, MissingCalls[c][4]) = 0

Streams(n) ==
  IF n <= MaxN THEN ValueStreams(n)
  ELSE IF n = SmallestMissing THEN PickStreams(n) \cup OverlapStreams(n)
  ELSE PickStreams(n)

Sizes == (1..MaxN) \cup {SmallestMissing, MaxCohort}

----------------------------------------------------------------------------
(* One run of the script *)

Init ==
  /\ N \in Sizes
  /\ seeded \in Streams(N)
  /\ entropy = <<Typical(N), Typical(N)>>
  /\ run = 1
  /\ mem = Start
  /\ cohort_csv = <<>>
  /\ first = <<>>

Next ==
  \/ L15_seed \/ L19_print \/ L25_subject_id \/ L28_age_at_admit \/ PlainDraw
  \/ L59_los_days \/ L68_hadm_id \/ L75_prior_admits_12m \/ L83_icu_los_days
  \/ L94_num_diagnoses \/ L116_creatinine_base \/ L117_creatinine \/ L118_creatinine
  \/ L121_hgb_base \/ L124_hemoglobin \/ L125_hemoglobin \/ L128_wbc
  \/ L131_glucose_base \/ L132_glucose \/ L133_glucose \/ L136_sodium
  \/ L139_potassium \/ L142_bun \/ L145_platelet \/ L152_num_medications
  \/ L157_on_insulin \/ L160_on_antiepileptic \/ L169_print \/ L175_logit
  \/ L200_prob_readmit \/ L201_readmit_30d \/ L203_readmit_rate \/ L211_print
  \/ L222_add_missing \/ L235_mar_mask \/ L236_glucose_m \/ L237_print
  \/ L243_df \/ L284_to_csv \/ L285_summary

Spec == Init /\ [][Next]_vars

----------------------------------------------------------------------------
(* The script run a second time *)

\* the script has ended (normally or by an exception) and is started again: a
\* fresh interpreter, the file system as the first run left it
Rerun ==
  /\ run = 1
  /\ mem.exit # ""
  /\ run' = 2
  /\ first' = [mem |-> mem, cohort_csv |-> cohort_csv]
  /\ mem' = Start
  /\ UNCHANGED <<N, seeded, entropy, cohort_csv>>

\* the streams explored for the seed and for the operating system's entropy
RerunStreams(n) == Vary(Typical(n), 1, <<19, Len(Calls)>>)

InitRerun ==
  /\ N = MaxN
  /\ seeded \in RerunStreams(N)
  /\ entropy \in RerunStreams(N) \X RerunStreams(N)
  /\ run = 1
  /\ mem = Start
  /\ cohort_csv = <<>>
  /\ first = <<>>

NextRerun == Next \/ Rerun

SpecRerun == InitRerun /\ [][NextRerun]_vars

----------------------------------------------------------------------------
(* The table, as the claims read it *)

\* the DataFrame is built once line 243 has run, and written once line 284 has
Built == mem.pc >= 284
Written == mem.pc >= 285

\* the place of a column in the table
ColIdx(name) == CHOOSE k \in 1..Len(mem.v.df.columns) : mem.v.df.columns[k] = name

\* the cell of row i in the column
Cell(name, i) == mem.v.df.data[ColIdx(name)][i]

\* whether that cell is missing
Missing(name, i) ==
  mem.v.df.dtype[ColIdx(name)] = "nanfloat" /\ IsNaN(Cell(name, i))

\* the number held by a cell that is not missing
Number(name, i) ==
  IF mem.v.df.dtype[ColIdx(name)] = "nanfloat" THEN Cell(name, i)[1] ELSE Cell(name, i)

\* the number of missing cells of a column
MissingCount(name) == Cardinality({i \in 1..mem.v.df.rows : Missing(name, i)})

\* the outcome of the np.random call of line l (its j-th, when it makes two) in
\* the seeded stream
Drawn(l, j) == seeded[(CHOOSE k \in 1..Len(Calls) : Calls[k] = l) + j - 1]

----------------------------------------------------------------------------
(* C1 *)

\* the clipped fields with their inclusive ranges, in the units the table holds
\* them in: integers for age_at_admit, prior_admits_12m and num_diagnoses,
\* thousandths for the others
ClippedRanges ==
  << <<"age_at_admit", 18, 99>>,         <<"los_days", 1000, 60000>>,
     <<"num_diagnoses", 1, 20>>,         <<"creatinine", 300, 8000>>,
     <<"hemoglobin", 5000, 19000>>,      <<"wbc", 1500, 35000>>,
     <<"glucose", 50000, 500000>>,       <<"sodium", 118000, 158000>>,
     <<"potassium", 2500, 6500>>,        <<"bun", 5000, 80000>>,
     <<"platelet", 30000, 600000>>,      <<"num_medications", 1000, 25000>>,
     <<"prior_admits_12m", 0, 8>> >>

\* C1: in the written table every non-missing cell of a clipped field lies in the
\* field's inclusive range (after rounding), for every row and every outcome of the
\* draws; prior_admits_12m is 0 or in [1, 8]
C1_InRange ==
  Written =>
    \A r \in 1..Len(ClippedRanges) : \A i \in 1..N :
      LET f == ClippedRanges[r]
      IN  Missing(f[1], i) \/ (f[2] <= Number(f[1], i) /\ Number(f[1], i) <= f[3])

\* a written table in which a draw beyond a range was clipped to its bound: a
\* length of stay drawn above 60 days
C1_Witness ==
  /\ Written
  /\ \E i \in 1..N : Drawn(59, 1)[i] > 60000 /\ Number("los_days", i) = 60000

----------------------------------------------------------------------------
(* C10 *)

\* C10: in every row icu_los_days is exactly 0.0 when had_icu_stay = 0 and lies in
\* [0.5, 30.0] when had_icu_stay = 1; it is never strictly between 0 and 0.5
C10_IcuConsistent ==
  Written =>
    \A i \in 1..N :
      /\ Number("had_icu_stay", i) = 0 => Number("icu_los_days", i) = 0
      /\ Number("had_icu_stay", i) = 1 =>
           (500 <= Number("icu_los_days", i) /\ Number("icu_los_days", i) <= 30000)
      /\ ~(0 < Number("icu_los_days", i) /\ Number("icu_los_days", i) < 500)

\* a written table with an ICU row whose duration was drawn below half a day and
\* a row without ICU stay
C10_Witness ==
  /\ Written
  /\ \E i \in 1..N :
       /\ Number("had_icu_stay", i) = 1
       /\ Drawn(83, 1)[i] < 500
       /\ Number("icu_los_days", i) = 500
  /\ \E i \in 1..N : Number("had_icu_stay", i) = 0 /\ Drawn(83, 1)[i] > 0

----------------------------------------------------------------------------
(* C5 *)

\* the documented columns, in order
DocumentedColumns ==
  << "subject_id", "hadm_id", "readmit_30d", "age_at_admit", "gender", "race",
     "insurance", "marital_status", "los_days", "admission_type", "prior_admits_12m",
     "had_icu_stay", "icu_los_days", "num_diagnoses", "dx_cerebral_infarction",
     "dx_ich", "dx_epilepsy", "dx_parkinson", "dx_alzheimer", "dx_ms", "dx_diabetes",
     "dx_chf", "dx_copd", "dx_ckd", "creatinine", "hemoglobin", "wbc", "glucose",
     "sodium", "potassium", "bun", "platelet", "num_medications", "on_anticoagulant",
     "on_statin", "on_insulin", "on_antiepileptic" >>

\* C5: the written table has exactly N rows and the 37 documented columns in order;
\* subject_id starts at 100001 and hadm_id at 200001, each unique and strictly
\* increasing by row, whatever the draws
C5_Shape ==
  Written =>
    /\ Len(cohort_csv) = N + 1
    /\ cohort_csv[1] = DocumentedColumns
    /\ Len(DocumentedColumns) = 37
    /\ \A l \in 2..Len(cohort_csv) : Len(cohort_csv[l]) = 37
    /\ mem.v.df.rows = N
    /\ Cell("subject_id", 1) = 100001
    /\ Cell("hadm_id", 1) = 200001
    /\ \A i \in 1..N :
         /\ cohort_csv[i + 1][1] = ToString(Cell("subject_id", i))
         /\ cohort_csv[i + 1][2] = ToString(Cell("hadm_id", i))
    /\ \A i, j \in 1..N :
         i < j => /\ Cell("subject_id", i) < Cell("subject_id", j)
                  /\ Cell("hadm_id", i) < Cell("hadm_id", j)

\* a written table of the largest cohort, with a missing cell in its last row
C5_Witness ==
  /\ Written
  /\ N = MaxCohort
  /\ cohort_csv[N + 1][1] = ToString(100000 + N)
  /\ Missing("glucose", N)

----------------------------------------------------------------------------
(* C2, C3, C4: the missing cells *)

\* floor(n * pct / 100), pct in tenths of a percent
FloorPct(n, pct) == CHOOSE k \in 0..n : k * 1000 <= n * pct /\ n * pct < (k + 1) * 1000

\* the number of NaN cells of an array
NaNCount(arr) == Cardinality({i \in 1..Len(arr) : IsNaN(arr[i])})

\* the counts of a cohort of 2400 rows, by call of add_missing
CountsAt2400 == << 108, 172, 139, 300, 96, 146, 199, 84, 60 >>

\* C2: the column add_missing returns for percentage pct has exactly
\* floor(N * pct / 100) missing cells, at distinct rows, and so has the written
\* table for every field but glucose; with N = 2400 these are creatinine 108,
\* hemoglobin 172, wbc 139, sodium 96, potassium 146, bun 199, platelet 84,
\* num_medications 60
C2_BaseCounts ==
  /\ \A c \in 1..Len(MissingCalls) :
       LET call == MissingCalls[c]
           col == mem.v[call[2]]
       IN  /\ (col # Unset /\ (c # GlucoseCall \/ mem.pc <= 236)) =>
                NaNCount(col) = FloorPct(N, call[4])
           /\ (Written /\ c # GlucoseCall) =>
                MissingCount(call[3]) = FloorPct(N, call[4])
           /\ c # GlucoseCall => n_miss(2400, call[4]) = CountsAt2400[c]
  /\ Len(MissingCalls) = Len(CountsAt2400)

\* a written table of a cohort in which add_missing picked two rows for glucose,
\* other than the two it would pick first, and one row for hemoglobin
C2_Witness ==
  /\ Written
  /\ n_miss(N, 125) = 2
  /\ Missing("glucose", N) /\ Missing("glucose", N - 1)
  /\ MissingCount("hemoglobin") = 1

\* C3: the number of missing glucose cells of the written table is the base count
\* floor(N * 12.5 / 100) plus the number of rows the MAR mask selects (the count
\* printed as "extra missing for non-diabetics")
C3_GlucoseCount ==
  Written =>
    /\ MissingCount("glucose") = FloorPct(N, 125) + mask_sum(mem.v.mar_mask)
    /\ \E l \in 1..Len(mem.stdout) :
         mem.stdout[l] = <<"glucose (additional MAR)", mask_sum(mem.v.mar_mask)>>

\* the fields add_missing has been called on
AppliedTo ==
  {MissingCalls[c][3] : c \in {c \in 1..Len(MissingCalls) : mem.v[MissingCalls[c][2]] # Unset}}

\* no cell of the written file is empty outside the columns of those fields
OnlyAppliedMissing ==
  Written =>
    \A l \in 2..Len(cohort_csv) : \A k \in 1..Len(cohort_csv[l]) :
      cohort_csv[l][k] = "" => cohort_csv[1][k] \in AppliedTo

----------------------------------------------------------------------------
(* C6 *)

\* C6: for every N >= 1 and every outcome of the draws the run ends without an
\* error: every z(x) is defined, every probability is a number, every readmit_30d
\* is 0 or 1, and the table is written
C6_NoError ==
  /\ mem.exit # "ValueError"
  /\ mem.pc > 175 =>
       \A k \in 1..Len(Standardized) : \A i \in 1..N :
         ~IsNaN(z(mem.v[Standardized[k]])[i])
  /\ mem.pc > 200 => \A i \in 1..N : ~IsNaN(mem.v.prob_readmit[i])
  /\ mem.pc > 201 => \A i \in 1..N : mem.v.readmit_30d[i] \in {0, 1}
  /\ mem.exit = "ok" => cohort_csv # <<>>

----------------------------------------------------------------------------
(* C7 *)

\* C7: a second run with the same seed and constants leaves what the first left:
\* the same stream consumed to the same place, the same variables, the same
\* output and the same file, cell for cell, missing cells included
C7_Deterministic ==
  (run = 2 /\ mem.exit # "") =>
    /\ mem = first.mem
    /\ cohort_csv = first.cohort_csv

\* a second run that wrote a table with a missing cell
C7_Witness ==
  /\ run = 2
  /\ mem.exit = "ok"
  /\ Missing("glucose", 1)
  /\ mem.rng.pos = Len(Calls)

----------------------------------------------------------------------------
(* C8 *)

\* the hemoglobin of every row were its dx_ckd flag f, the draws being those made
Hgb(f) == hemoglobin_clip(hemoglobin_where([i \in Rows |-> f], mem.v.hgb_base))

\* neither value is changed by the clip
Unclipped(i) ==
  /\ 5000 <= mem.v.hgb_base[i] /\ mem.v.hgb_base[i] <= 19000
  /\ 5000 <= mem.v.hgb_base[i] - 1500 /\ mem.v.hgb_base[i] - 1500 <= 19000

\* C8 as claimed: for the same draws the hemoglobin with dx_ckd = 1 is never
\* higher than with dx_ckd = 0, and exactly 1.5 lower when the clip changes neither
C8_Exactly15 ==
  mem.pc > 121 =>
    \A i \in 1..N :
      /\ Hgb(1)[i] <= Hgb(0)[i]
      /\ Unclipped(i) => Hgb(0)[i] - Hgb(1)[i] = 1500

\* C8 amended: never higher, and when the clip changes neither value the two
\* differ by 1.5 before the rounding to one decimal and by 1.4, 1.5 or 1.6 after
\* it; the row's hemoglobin is the one of its flag
C8_Within01 ==
  mem.pc > 121 =>
    \A i \in 1..N :
      /\ Hgb(1)[i] <= Hgb(0)[i]
      /\ Unclipped(i) =>
           /\ hemoglobin_where([j \in Rows |-> 0], mem.v.hgb_base)[i]
                - hemoglobin_where([j \in Rows |-> 1], mem.v.hgb_base)[i] = 1500
           /\ Hgb(0)[i] - Hgb(1)[i] \in {1400, 1500, 1600}
      /\ mem.pc > 125 => mem.v.hemoglobin[i] = Hgb(mem.v.dx_ckd[i])[i]

\* a row with dx_ckd = 1 whose draw 12.25 lies on a rounding tie: 10.75 rounds to
\* 10.8 where 12.25 rounds to 12.2
C8_Witness ==
  /\ mem.pc > 125
  /\ \E i \in 1..N :
       /\ mem.v.dx_ckd[i] = 1
       /\ mem.v.hgb_base[i] = 12250
       /\ mem.v.hemoglobin[i] = 10800
       /\ Hgb(0)[i] = 12200

----------------------------------------------------------------------------
(* C9 *)

\* the rows the c-th call of add_missing picked
Picked(c) ==
  LET idx == choice(N, FloorPct(N, MissingCalls[c][4]), FALSE,
                    Drawn(MissingCalls[c][1], 1))
  IN  {idx[k] + 1 : k \in 1..Len(idx)}

\* the rows whose cell line 236 masks: non-diabetic, and drawn below 0.05
MarSelected == {i \in 1..N : mem.v.dx_diabetes[i] = 0 /\ Drawn(235, 1)[i] < 50}

\* the variables bound before the missing data section
Complete == Fields \ ({MissingCalls[c][2] : c \in 1..Len(MissingCalls)} \cup {"mar_mask", "df"})

\* in the table a cell of an affected field is missing exactly when its row was
\* picked (for glucose: or masked by line 236), and otherwise holds the value of
\* before the missing data section
MaskedCells ==
  Built =>
    \A c \in 1..Len(MissingCalls) : \A i \in 1..N :
      LET call == MissingCalls[c]
      IN  /\ Missing(call[3], i) <=>
               (i \in Picked(c) \/ (c = GlucoseCall /\ i \in MarSelected))
          /\ ~Missing(call[3], i) =>
               Number(call[3], i) = Argument(mem.v, call)[i]

\* the missing data section starts once the outcome is drawn, and the outcome
\* is the draw made on the probabilities of the complete columns
OutcomeFirst ==
  /\ (\E c \in 1..Len(MissingCalls) : mem.v[MissingCalls[c][2]] # Unset) =>
       mem.v.readmit_30d # Unset
  /\ mem.v.readmit_30d # Unset =>
       /\ mem.v.readmit_30d = Drawn(201, 1)
       /\ mem.v.prob_readmit = prob_readmit(logit(mem.v, Drawn(175, 1)))

\* the statements of the missing data section and after leave every variable
\* bound before it as it is
MaskFrame ==
  mem.pc >= 211 => \A f \in Complete : mem'.v[f] = mem.v[f]

\* C9: missingness only masks cells and comes after the outcome: add_missing
\* leaves its argument unchanged; a table cell of an affected field is missing or
\* equal to the value of before; it is missing exactly when its row is in the
\* field's picked set (for glucose: or the row is non-diabetic and selected by the
\* MAR draw); readmit_30d comes from the complete values
C9_MaskOnly == [](MaskedCells /\ OutcomeFirst) /\ [][MaskFrame]_vars

\* a table in which glucose is missing in a non-diabetic row by the MAR draw alone,
\* in a row by the pick alone, and present in a diabetic row the MAR draw selected
C9_Witness ==
  /\ Written
  /\ \E i \in 1..N : Missing("glucose", i) /\ i \in MarSelected /\ i \notin Picked(GlucoseCall)
  /\ \E i \in 1..N : Missing("glucose", i) /\ i \notin MarSelected
  /\ \E i \in 1..N : ~Missing("glucose", i) /\ Drawn(235, 1)[i] < 50
                     /\ mem.v.dx_diabetes[i] = 1

====
